---- MODULE Spec2Model ----
(***************************************************************************)
(* Wire-format codec of the go-apns client: package apns (byte-slice       *)
(* notifications with declared length fields) and package format (hex      *)
(* token, JSON payload), with the stream they write to and read from.      *)
(***************************************************************************)
EXTENDS Integers, Sequences, FiniteSets

VARIABLES
    pkg,     \* the notification type under test
    n,       \* the notification value the caller holds
    wire,    \* the bytes written to the stream so far
    marks,   \* stream offset at which each encode call ended, one per call
    rpos,    \* number of bytes of the stream the reader has consumed
    chunk,   \* most bytes the reader returned per Read call (0: no limit)
    out,     \* the value the caller holds for decoding (new(T), then after ReadFrom)
    err,     \* error returned by the last operation (Nil: none)
    pc,      \* last operation: "new", "validated", "written", "sent", "decoded";
             \* the dispatcher's state: "AwaitingTag", "Done"
    room,    \* bytes the writer still accepts before its writes fail (-1: never fails)
    packets, \* the packets ReadCommand has returned without an error, in order
    tcpconn, \* the socket a dial call opened: address, state, Nagle setting, TLS session
    procs,   \* apnsend: where each goroutine is (main, readResp, apnMake)
    written, \* apnsend: the notifications written to the connection, in order
    resp,    \* apnsend: what the peer has put on the connection for the reader
    mockErrOpts, \* apnserver: the -fail option
    rnd      \* apnserver: the value rand.Intn gave mockErr (0: not drawn yet)

codecVars == <<pkg, n, wire, marks, rpos, chunk, out, err, pc, room, packets>>
sendVars == <<procs, written, resp>>
mockVars == <<mockErrOpts, rnd>>
vars == <<codecVars, tcpconn, sendVars, mockVars>>

\* ----------------------------------------------------------------- bounds
MaxLen == 2      \* token and payload lengths 0..MaxLen besides the named ones
MaxSeed == 1     \* byte patterns 0..MaxSeed
MaxWrites == 2   \* encode calls per stream
MaxChunk == 2    \* readers handing out at most 1..MaxChunk bytes per Read call

\* ------------------------------------------------------ program constants
SimpleNotificationCMD == 0
EnhancedNotificationCMD == 1
NotificationCMD == 2
MaxSimplePayloadSize == 256
MaxPayloadSize == 256
TokenItemNumber == 1
PayloadItemNumber == 2
IdentifierItemNumber == 3
ExpiryItemNumber == 4
PriorityItemNumber == 5

Nil == "nil"

\* ------------------------------------------------------- integer widths
Uint16(x) == x % (2^16)
\* A 32-bit value is held as its two 16-bit halves <<high, low>>: the codec never
\* computes with an identifier or an expiry, it only moves their bits.
Word32(hi, lo) == <<hi, lo>>
Int32(x) == <<(x \div (2^16)) % (2^16), x % (2^16)>>
Uint8(x) == x % (2^8)
Min(a, b) == IF a <= b THEN a ELSE b

\* encoding/binary, big endian: the bytes of a 16/32-bit value (two's
\* complement for signed ones)
BE16(v) == <<(Uint16(v) \div 256) % 256, Uint16(v) % 256>>
BE32(v) == BE16(v[1]) \o BE16(v[2])
FromBE16(b) == b[1] * 256 + b[2]
FromBE32(b) == <<b[1] * 256 + b[2], b[3] * 256 + b[4]>>

Zeros(k) == <<>> \o [i \in 1..k |-> 0]

\* ------------------------------------------------------------ the reader
\* binary.Read of a k-byte integer: io.ReadFull, so it loops over short reads;
\* io.EOF when nothing is left, io.ErrUnexpectedEOF when the stream ends inside.
ReadFull(w, pos, k) ==
    LET avail == Len(w) - pos IN
    IF avail = 0 /\ k > 0 THEN [err |-> "EOF", pos |-> pos, buf |-> <<>>]
    ELSE IF avail < k THEN [err |-> "unexpected EOF", pos |-> Len(w), buf |-> <<>>]
    ELSE [err |-> Nil, pos |-> pos + k, buf |-> SubSeq(w, pos + 1, pos + k)]

\* One r.Read(buf) call with len(buf) = k on a reader that hands out at most c
\* bytes per call (c = 0: as many as asked for): buf is make([]byte, k), the
\* call fills its first got bytes and leaves the rest zero.
Read(w, pos, k, c) ==
    LET avail == Len(w) - pos
        lim == IF c = 0 THEN k ELSE Min(k, c)
        got == Min(lim, avail)
    IN IF k = 0 THEN [err |-> Nil, pos |-> pos, buf |-> <<>>]
       ELSE IF avail = 0 THEN [err |-> "EOF", pos |-> pos, buf |-> Zeros(k)]
       ELSE [err |-> Nil, pos |-> pos + got,
             buf |-> SubSeq(w, pos + 1, pos + got) \o Zeros(k - got)]

\* ---------------------------------------------- package apns: Simple
SimpleZero ==
    [Command |-> 0, TokenLength |-> 0, DeviceToken |-> <<>>,
     PayloadLength |-> 0, Payload |-> <<>>]

NewSimpleNotification == [SimpleZero EXCEPT !.Command = SimpleNotificationCMD]

\* SimpleWriteTo with the length fields written low byte first.
SimpleWriteTo_LittleEndian(sn) ==
    [err |-> Nil,
     bytes |-> <<Uint8(sn.Command)>>
               \o <<sn.TokenLength % 256, sn.TokenLength \div 256>> \o sn.DeviceToken
               \o <<sn.PayloadLength % 256, sn.PayloadLength \div 256>> \o sn.Payload]

\* WriteTo: five binary.Write calls whose errors are dropped; returns nil.
SimpleWriteTo(sn) ==
    [err |-> Nil,
     bytes |-> <<Uint8(sn.Command)>> \o BE16(sn.TokenLength) \o sn.DeviceToken
               \o BE16(sn.PayloadLength) \o sn.Payload]

SimpleReadFrom(sn, w, pos, c) ==
    LET r1 == ReadFull(w, pos, 2) IN
    IF r1.err # Nil
    THEN [n |-> sn, pos |-> r1.pos, err |-> "Error reading token length from input."]
    ELSE
    LET sn1 == [sn EXCEPT !.TokenLength = FromBE16(r1.buf)]
        r2 == Read(w, r1.pos, sn1.TokenLength, c)
        sn2 == [sn1 EXCEPT !.DeviceToken = r2.buf]
    IN
    IF r2.err # Nil
    THEN [n |-> sn2, pos |-> r2.pos, err |-> "Error reading device token from input."]
    ELSE
    LET r3 == ReadFull(w, r2.pos, 2) IN
    IF r3.err # Nil
    THEN [n |-> sn2, pos |-> r3.pos, err |-> "Error reading payload length from input."]
    ELSE
    LET sn3 == [sn2 EXCEPT !.PayloadLength = FromBE16(r3.buf)]
        r4 == Read(w, r3.pos, sn3.PayloadLength, c)
        sn4 == [sn3 EXCEPT !.Payload = r4.buf]
    IN
    IF r4.err # Nil
    THEN [n |-> sn4, pos |-> r4.pos, err |-> "Error reading payload data from input."]
    ELSE [n |-> sn4, pos |-> r4.pos, err |-> Nil]

SetPayload(sn, p) == [sn EXCEPT !.PayloadLength = Uint16(Len(p)), !.Payload = p]

SetToken(sn, t) == [sn EXCEPT !.TokenLength = Uint16(Len(t)), !.DeviceToken = t]

SimpleValidate(apn) ==
    IF apn.Command # SimpleNotificationCMD THEN "Incorrect command ID in notification"
    ELSE IF apn.TokenLength # Uint16(Len(apn.DeviceToken))
         THEN "Token length does not match actal device token length"
    ELSE IF apn.PayloadLength # Uint16(Len(apn.Payload))
         THEN "Payload length does not match actual payload length"
    ELSE IF apn.PayloadLength > MaxSimplePayloadSize THEN "Payload too large"
    ELSE Nil

\* ---------------------------------------------- package apns: Enhanced
EnhancedZero ==
    [Command |-> 0, Identifier |-> Int32(0), Expiry |-> Int32(0), TokenLength |-> 0,
     DeviceToken |-> <<>>, PayloadLength |-> 0, Payload |-> <<>>]

NewEnhancedNotification(token, payload, id, expiry) ==
    [Command |-> EnhancedNotificationCMD, Identifier |-> id, Expiry |-> expiry,
     TokenLength |-> Uint16(Len(token)), DeviceToken |-> token,
     PayloadLength |-> Uint16(Len(payload)), Payload |-> payload]

\* The struct literal of apnsend: every field but Command is set.
EnhancedLiteral(token, payload, id, expiry) ==
    [EnhancedZero EXCEPT !.Identifier = id, !.Expiry = expiry,
                         !.TokenLength = Uint16(Len(token)), !.DeviceToken = token,
                         !.PayloadLength = Uint16(Len(payload)), !.Payload = payload]

\* Write: seven binary.Write calls whose errors are dropped; returns nil.
EnhancedWrite(sn) ==
    [err |-> Nil,
     bytes |-> <<Uint8(sn.Command)>> \o BE32(sn.Identifier) \o BE32(sn.Expiry)
               \o BE16(sn.TokenLength) \o sn.DeviceToken
               \o BE16(sn.PayloadLength) \o sn.Payload]

EnhancedValidate(apn) ==
    IF apn.Command # EnhancedNotificationCMD THEN "Incorrect command ID in notification"
    ELSE IF apn.TokenLength # Uint16(Len(apn.DeviceToken))
         THEN "Token length does not match actal device token length"
    ELSE IF apn.PayloadLength # Uint16(Len(apn.Payload))
         THEN "Payload length does not match actual payload length"
    ELSE IF apn.PayloadLength > MaxPayloadSize THEN "Payload too large"
    ELSE Nil

\* Send as first written: Validate, then Write.
SendValidated(apn) ==
    LET e == EnhancedValidate(apn) IN
    IF e # Nil THEN [err |-> e, bytes |-> <<>>] ELSE EnhancedWrite(apn)

\* Send as it now stands: the Validate call is commented out.
Send(apn) == SimpleWriteTo(apn)

\* ------------------------------------------------- package format: inputs
\* A string is the sequence of its bytes (ASCII codes).
\* encoding/hex: the value of one hex digit, -1 for any other byte.
FromHexChar(c) ==
    IF c >= 48 /\ c <= 57 THEN c - 48
    ELSE IF c >= 97 /\ c <= 102 THEN c - 97 + 10
    ELSE IF c >= 65 /\ c <= 70 THEN c - 65 + 10
    ELSE -1

\* hex.DecodeString: an odd length or a byte that is no hex digit is an error.
HexDecodeString(s) ==
    IF \E i \in 1..Len(s) : FromHexChar(s[i]) < 0
    THEN [err |-> "encoding/hex: invalid byte", bytes |-> <<>>]
    ELSE IF Len(s) % 2 = 1
    THEN [err |-> "encoding/hex: odd length hex string", bytes |-> <<>>]
    ELSE [err |-> Nil,
          bytes |-> <<>> \o [i \in 1..(Len(s) \div 2) |->
                        16 * FromHexChar(s[2 * i - 1]) + FromHexChar(s[2 * i])]]

\* json.Marshal of the payload map: a nil map is null, a map holding
\* {"aps": {"alert": text}} is that object (text needs no escaping), and a map
\* holding a value encoding/json does not support is an error.
JSONMarshal(p) ==
    IF p.kind = "nil" THEN [err |-> Nil, bytes |-> <<110, 117, 108, 108>>]
    ELSE IF p.kind = "aps"
    THEN [err |-> Nil,
          bytes |-> <<123, 34, 97, 112, 115, 34, 58, 123, 34, 97, 108, 101, 114,
                      116, 34, 58, 34>> \o p.text \o <<34, 125, 125>>]
    ELSE [err |-> "json: unsupported type", bytes |-> <<>>]

NilJSON == [kind |-> "nil", text |-> <<>>]

\* ------------------------------------------------ package format: Simple
FormatSimpleZero == [Command |-> 0, Token |-> <<>>, Payload |-> NilJSON]

\* ReadFrom has a value receiver: every field it assigns is a field of its own
\* copy, so the caller's value sn is what the caller still holds afterwards.
FormatSimpleReadFrom(sn, w, pos, c) ==
    LET r1 == ReadFull(w, pos, 2) IN
    IF r1.err # Nil THEN [n |-> sn, pos |-> r1.pos, err |-> r1.err]
    ELSE
    LET r2 == Read(w, r1.pos, FromBE16(r1.buf), c) IN
    IF r2.err # Nil THEN [n |-> sn, pos |-> r2.pos, err |-> r2.err]
    ELSE
    LET r3 == ReadFull(w, r2.pos, 2) IN
    IF r3.err # Nil THEN [n |-> sn, pos |-> r3.pos, err |-> r3.err]
    ELSE
    LET r4 == Read(w, r3.pos, FromBE16(r3.buf), c) IN
    IF r4.err # Nil THEN [n |-> sn, pos |-> r4.pos, err |-> r4.err]
    ELSE [n |-> sn, pos |-> r4.pos, err |-> Nil]

\* WriteTo returns at the first error; what it wrote before stays written.
FormatSimpleWriteTo(sn) ==
    LET b0 == <<Uint8(SimpleNotificationCMD)>>
        token == HexDecodeString(sn.Token)
    IN
    IF token.err # Nil THEN [err |-> token.err, bytes |-> b0]
    ELSE
    LET b1 == b0 \o BE16(Uint16(Len(token.bytes))) \o token.bytes
        payload == JSONMarshal(sn.Payload)
    IN
    IF payload.err # Nil THEN [err |-> payload.err, bytes |-> b1]
    ELSE [err |-> Nil,
          bytes |-> b1 \o BE16(Uint16(Len(payload.bytes))) \o payload.bytes]

\* ---------------------------------------------- package format: Enhanced
FormatEnhancedZero ==
    [Command |-> 0, Token |-> <<>>, Identifier |-> Int32(0), Expiry |-> Int32(0),
     Payload |-> NilJSON]

FormatEnhancedReadFrom(en, w, pos, c) ==
    LET r0 == ReadFull(w, pos, 4) IN
    IF r0.err # Nil THEN [n |-> en, pos |-> r0.pos, err |-> r0.err]
    ELSE
    LET r00 == ReadFull(w, r0.pos, 4) IN
    IF r00.err # Nil THEN [n |-> en, pos |-> r00.pos, err |-> r00.err]
    ELSE
    LET r1 == ReadFull(w, r00.pos, 2) IN
    IF r1.err # Nil THEN [n |-> en, pos |-> r1.pos, err |-> r1.err]
    ELSE
    LET r2 == Read(w, r1.pos, FromBE16(r1.buf), c) IN
    IF r2.err # Nil THEN [n |-> en, pos |-> r2.pos, err |-> r2.err]
    ELSE
    LET r3 == ReadFull(w, r2.pos, 2) IN
    IF r3.err # Nil THEN [n |-> en, pos |-> r3.pos, err |-> r3.err]
    ELSE
    LET r4 == Read(w, r3.pos, FromBE16(r3.buf), c) IN
    IF r4.err # Nil THEN [n |-> en, pos |-> r4.pos, err |-> r4.err]
    ELSE [n |-> en, pos |-> r4.pos, err |-> Nil]

FormatEnhancedWriteTo(en) ==
    LET b0 == <<Uint8(EnhancedNotificationCMD)>> \o BE32(en.Identifier)
              \o BE32(en.Expiry)
        token == HexDecodeString(en.Token)
    IN
    IF token.err # Nil THEN [err |-> token.err, bytes |-> b0]
    ELSE
    LET b1 == b0 \o BE16(Uint16(Len(token.bytes))) \o token.bytes
        payload == JSONMarshal(en.Payload)
    IN
    IF payload.err # Nil THEN [err |-> payload.err, bytes |-> b1]
    ELSE [err |-> Nil,
          bytes |-> b1 \o BE16(Uint16(Len(payload.bytes))) \o payload.bytes]

\* ------------------------------------- package format: Notification (tag 2)
FormatNotificationZero ==
    [Command |-> 0, Token |-> <<>>, Identifier |-> Int32(0), Expiry |-> Int32(0),
     Priority |-> 0, Payload |-> NilJSON]

\* ReadFrom is a stub: it reads nothing, assigns nothing and returns nil.
FormatNotificationReadFrom(en, w, pos, c) == [n |-> en, pos |-> pos, err |-> Nil]

\* One item of the frame: number, int16 length, data.
Item(number, dataLen, data) == <<Uint8(number)>> \o BE16(Uint16(dataLen)) \o data

\* FormatNotificationWriteTo with the priority item left out of the frame length.
FormatNotificationWriteTo_ShortFrame(nn) ==
    LET token == HexDecodeString(nn.Token) IN
    IF token.err # Nil THEN [err |-> token.err, bytes |-> <<>>]
    ELSE
    LET payload == JSONMarshal(nn.Payload) IN
    IF payload.err # Nil THEN [err |-> payload.err, bytes |-> <<>>]
    ELSE
    LET tokenLen == Len(token.bytes)
        payloadLen == Len(payload.bytes)
        frameLen == 0 + 1 + 2 + tokenLen + 1 + 2 + payloadLen + 1 + 2 + 4 + 1 + 2 + 4
    IN [err |-> Nil,
        bytes |-> <<Uint8(NotificationCMD)>> \o BE32(Int32(frameLen))
                  \o Item(TokenItemNumber, tokenLen, token.bytes)
                  \o Item(PayloadItemNumber, payloadLen, payload.bytes)
                  \o Item(IdentifierItemNumber, 4, BE32(nn.Identifier))
                  \o Item(ExpiryItemNumber, 4, BE32(nn.Expiry))
                  \o Item(PriorityItemNumber, 1, <<Uint8(nn.Priority)>>)]

\* FormatNotificationWriteTo with the expiry item written before the identifier item.
FormatNotificationWriteTo_ExpiryFirst(nn) ==
    LET token == HexDecodeString(nn.Token) IN
    IF token.err # Nil THEN [err |-> token.err, bytes |-> <<>>]
    ELSE
    LET payload == JSONMarshal(nn.Payload) IN
    IF payload.err # Nil THEN [err |-> payload.err, bytes |-> <<>>]
    ELSE
    LET tokenLen == Len(token.bytes)
        payloadLen == Len(payload.bytes)
        frameLen == 0 + 1 + 2 + tokenLen + 1 + 2 + payloadLen + 1 + 2 + 4 + 1 + 2 + 4
                    + 1 + 2 + 1
    IN [err |-> Nil,
        bytes |-> <<Uint8(NotificationCMD)>> \o BE32(Int32(frameLen))
                  \o Item(TokenItemNumber, tokenLen, token.bytes)
                  \o Item(PayloadItemNumber, payloadLen, payload.bytes)
                  \o Item(ExpiryItemNumber, 4, BE32(nn.Expiry))
                  \o Item(IdentifierItemNumber, 4, BE32(nn.Identifier))
                  \o Item(PriorityItemNumber, 1, <<Uint8(nn.Priority)>>)]

FormatNotificationWriteTo(nn) ==
    LET token == HexDecodeString(nn.Token) IN
    IF token.err # Nil THEN [err |-> token.err, bytes |-> <<>>]
    ELSE
    LET payload == JSONMarshal(nn.Payload) IN
    IF payload.err # Nil THEN [err |-> payload.err, bytes |-> <<>>]
    ELSE
    LET tokenLen == Len(token.bytes)
        payloadLen == Len(payload.bytes)
        identifierLen == 4
        expiryLen == 4
        priorityLen == 1
        frameLen == 0 + 1 + 2 + tokenLen + 1 + 2 + payloadLen + 1 + 2 + identifierLen
                    + 1 + 2 + expiryLen + 1 + 2 + priorityLen
    IN [err |-> Nil,
        bytes |-> <<Uint8(NotificationCMD)>> \o BE32(Int32(frameLen))
                  \o Item(TokenItemNumber, tokenLen, token.bytes)
                  \o Item(PayloadItemNumber, payloadLen, payload.bytes)
                  \o Item(IdentifierItemNumber, identifierLen, BE32(nn.Identifier))
                  \o Item(ExpiryItemNumber, expiryLen, BE32(nn.Expiry))
                  \o Item(PriorityItemNumber, priorityLen, <<Uint8(nn.Priority)>>)]

\* ------------------------------------------------------------ the writer
\* The result of an encode call on a writer that accepts rm more bytes and then
\* fails every Write (rm = -1: it never fails), given its result r on a writer
\* that never fails. binary.Write hands each field to one w.Write call, which
\* writes what still fits and returns the error. An encoder that checks the
\* error returns it at once; one that drops it goes on, writes nothing more and
\* returns what it would have returned.
OnWriter(r, rm, checked) ==
    IF rm = -1 \/ Len(r.bytes) <= rm THEN r
    ELSE [err |-> IF checked THEN "write failed" ELSE r.err,
          bytes |-> SubSeq(r.bytes, 1, rm)]

\* ---------------------------------------------------- the error response
ErrorResponseCMD == 8
NotificationErrorCMD == 8
InvalidTokenStatus == 8
UnknownStatus == 255

\* new(ErrorResponse), new(format.NotificationError)
ErrorResponseZero == [Command |-> 0, Status |-> 0, Identifier |-> Int32(0)]

NewErrorResponse == [ErrorResponseZero EXCEPT !.Command = ErrorResponseCMD]

\* The response the mock server builds for an Enhanced notification it received:
\* a struct literal that sets Status and Identifier.
MockErrResponse(en) ==
    [ErrorResponseZero EXCEPT !.Status = InvalidTokenStatus,
                              !.Identifier = en.Identifier]

\* ErrorResponse.WriteTo and format.NotificationError.WriteTo: Command, Status
\* and Identifier, each write checked.
ErrorResponseWriteTo(nerr) ==
    [err |-> Nil,
     bytes |-> <<Uint8(nerr.Command)>> \o <<nerr.Status>> \o BE32(nerr.Identifier)]

\* ErrorResponse.ReadFrom with the identifier read as a 16-bit value.
ErrorResponseReadFrom_ShortIdentifier(nerr, w, pos) ==
    LET r1 == ReadFull(w, pos, 1) IN
    IF r1.err # Nil THEN [n |-> nerr, pos |-> r1.pos, err |-> r1.err]
    ELSE
    LET e1 == [nerr EXCEPT !.Status = r1.buf[1]]
        r2 == ReadFull(w, r1.pos, 2)
    IN
    IF r2.err # Nil THEN [n |-> e1, pos |-> r2.pos, err |-> r2.err]
    ELSE [n |-> [e1 EXCEPT !.Identifier = <<0, FromBE16(r2.buf)>>], pos |-> r2.pos,
          err |-> Nil]

\* ErrorResponse.ReadFrom (pointer receiver): two binary.Read calls.
ErrorResponseReadFrom(nerr, w, pos) ==
    LET r1 == ReadFull(w, pos, 1) IN
    IF r1.err # Nil THEN [n |-> nerr, pos |-> r1.pos, err |-> r1.err]
    ELSE
    LET e1 == [nerr EXCEPT !.Status = r1.buf[1]]
        r2 == ReadFull(w, r1.pos, 4)
    IN
    IF r2.err # Nil THEN [n |-> e1, pos |-> r2.pos, err |-> r2.err]
    ELSE [n |-> [e1 EXCEPT !.Identifier = FromBE32(r2.buf)], pos |-> r2.pos,
          err |-> Nil]

\* format.NotificationError.ReadFrom has a value receiver: it reads the same
\* bytes into its own copy, and the caller's value is what it was.
NotificationErrorReadFrom(nerr, w, pos) ==
    [ErrorResponseReadFrom(nerr, w, pos) EXCEPT !.n = nerr]

\* --------------------------------------------------------- the dispatcher
UnknwonCommandErr == "Unknown command ID."

\* The nil Packet.
NilPacket == [type |-> "nil"]

\* int8 of a byte read from the stream (two's complement).
Int8(b) == IF b >= 128 THEN b - 256 ELSE b

\* EnhancedNotification.ReadFrom of package apns, which ReadCommand of that
\* package calls for tag 1: identifier, expiry, then token and payload behind
\* their lengths, a field the stream cannot fill being a malformed-length error.
EnhancedReadFrom(sn, w, pos, c) ==
    LET r0 == ReadFull(w, pos, 4) IN
    IF r0.err # Nil THEN [n |-> sn, pos |-> r0.pos, err |-> "MalformedInput"]
    ELSE
    LET r00 == ReadFull(w, r0.pos, 4) IN
    IF r00.err # Nil THEN [n |-> sn, pos |-> r00.pos, err |-> "MalformedInput"]
    ELSE
    LET r1 == ReadFull(w, r00.pos, 2) IN
    IF r1.err # Nil THEN [n |-> sn, pos |-> r1.pos, err |-> "MalformedInput"]
    ELSE
    LET r2 == ReadFull(w, r1.pos, FromBE16(r1.buf)) IN
    IF r2.err # Nil THEN [n |-> sn, pos |-> r2.pos, err |-> "MalformedInput"]
    ELSE
    LET r3 == ReadFull(w, r2.pos, 2) IN
    IF r3.err # Nil THEN [n |-> sn, pos |-> r3.pos, err |-> "MalformedInput"]
    ELSE
    LET r4 == ReadFull(w, r3.pos, FromBE16(r3.buf)) IN
    IF r4.err # Nil THEN [n |-> sn, pos |-> r4.pos, err |-> "MalformedInput"]
    ELSE [n |-> [sn EXCEPT !.Identifier = FromBE32(r0.buf),
                           !.Expiry = FromBE32(r00.buf),
                           !.TokenLength = FromBE16(r1.buf), !.DeviceToken = r2.buf,
                           !.PayloadLength = FromBE16(r3.buf), !.Payload = r4.buf],
          pos |-> r4.pos, err |-> Nil]

\* What ReadCommand returns once p.ReadFrom has returned r: p was assigned
\* before the call and stays assigned, err is r's error as it is.
Delegated(type, r) == [p |-> [type |-> type, v |-> r.n], pos |-> r.pos, err |-> r.err]

\* The decoder ReadCommand of package apns hands a tag to (new(T).ReadFrom).
ApnsDecode(command, w, pos, c) ==
    CASE command = SimpleNotificationCMD ->
            Delegated("SimpleNotification", SimpleReadFrom(SimpleZero, w, pos, c))
      [] command = EnhancedNotificationCMD ->
            Delegated("EnhancedNotification", EnhancedReadFrom(EnhancedZero, w, pos, c))
      [] command = ErrorResponseCMD ->
            Delegated("ErrorResponse", ErrorResponseReadFrom(ErrorResponseZero, w, pos))

\* ReadCommand of package apns over its own types.
ApnsReadCommand(w, pos, c) ==
    LET r0 == ReadFull(w, pos, 1) IN
    IF r0.err # Nil THEN [p |-> NilPacket, pos |-> r0.pos, err |-> r0.err]
    ELSE
    LET command == r0.buf[1] IN
    IF command \in {SimpleNotificationCMD, EnhancedNotificationCMD, ErrorResponseCMD}
    THEN ApnsDecode(command, w, r0.pos, c)
    ELSE [p |-> NilPacket, pos |-> r0.pos, err |-> UnknwonCommandErr]

\* The decoder ReadCommand hands a tag to: the types of package format.
FormatDecode(command, w, pos, c) ==
    CASE command = SimpleNotificationCMD ->
            Delegated("format.SimpleNotification",
                      FormatSimpleReadFrom(FormatSimpleZero, w, pos, c))
      [] command = EnhancedNotificationCMD ->
            Delegated("format.EnhancedNotification",
                      FormatEnhancedReadFrom(FormatEnhancedZero, w, pos, c))
      [] command = NotificationErrorCMD ->
            Delegated("format.NotificationError",
                      NotificationErrorReadFrom(ErrorResponseZero, w, pos))

\* ReadCommand with the tag and one byte after it read before the switch.
ReadCommand_Lookahead(w, pos, c) ==
    LET r0 == ReadFull(w, pos, 1) IN
    IF r0.err # Nil THEN [p |-> NilPacket, pos |-> r0.pos, err |-> r0.err]
    ELSE
    LET command == Int8(r0.buf[1]) IN
    IF command \in {SimpleNotificationCMD, EnhancedNotificationCMD, NotificationErrorCMD}
    THEN FormatDecode(command, w, r0.pos, c)
    ELSE [p |-> NilPacket, pos |-> Min(r0.pos + 1, Len(w)), err |-> UnknwonCommandErr]

\* ReadCommand with every failure of the decoder reported as bad input.
ReadCommand_BadInput(w, pos, c) ==
    LET r0 == ReadFull(w, pos, 1) IN
    IF r0.err # Nil THEN [p |-> NilPacket, pos |-> r0.pos, err |-> r0.err]
    ELSE
    LET command == Int8(r0.buf[1]) IN
    IF command \in {SimpleNotificationCMD, EnhancedNotificationCMD, NotificationErrorCMD}
    THEN LET r == FormatDecode(command, w, r0.pos, c) IN
         IF r.err # Nil THEN [r EXCEPT !.err = "Bad input.\n"] ELSE r
    ELSE [p |-> NilPacket, pos |-> r0.pos, err |-> UnknwonCommandErr]

\* ReadCommand: the tag is read as an int8; the deferred recover turns a panic
\* into the error "Bad input.\n", and none of the decoders can panic (every
\* make([]byte, n) has an unsigned 16-bit n).
ReadCommand(w, pos, c) ==
    LET r0 == ReadFull(w, pos, 1) IN
    IF r0.err # Nil THEN [p |-> NilPacket, pos |-> r0.pos, err |-> r0.err]
    ELSE
    LET command == Int8(r0.buf[1]) IN
    IF command \in {SimpleNotificationCMD, EnhancedNotificationCMD, NotificationErrorCMD}
    THEN FormatDecode(command, w, r0.pos, c)
    ELSE [p |-> NilPacket, pos |-> r0.pos, err |-> UnknwonCommandErr]

\* ------------------------------------------------------------ the inputs
Bytes(len, seed) == <<>> \o [i \in 1..len |-> (i + 16 * seed) % 256]
Text(len, seed) == <<>> \o [i \in 1..len |-> 97 + ((i + seed) % 26)]
HexDigit(d) == IF d < 10 THEN 48 + d ELSE 87 + d
HexString(b) ==
    <<>> \o [i \in 1..(2 * Len(b)) |->
        IF i % 2 = 1 THEN HexDigit(b[(i + 1) \div 2] \div 16)
        ELSE HexDigit(b[i \div 2] % 16)]

Seeds == 0..MaxSeed
ExampleToken == <<190, 239, 202, 94>>                     \* be ef ca 5e
ExampleText == <<72, 101, 108, 108, 111, 32, 87, 111, 114, 108, 100>>  \* Hello World
TokenLens == (0..MaxLen) \cup {32}
BigTokenLens == {2^16 - 1, 2^16}
PayloadLens == (0..MaxLen) \cup {MaxPayloadSize, MaxPayloadSize + 1}
TextLens == (0..MaxLen) \cup {MaxPayloadSize - 20, MaxPayloadSize - 19}

SmallTokens == {Bytes(l, s) : l \in TokenLens, s \in Seeds} \cup {ExampleToken}
BigTokens == {Bytes(l, 0) : l \in BigTokenLens}
Payloads == {Bytes(l, s + 8) : l \in PayloadLens, s \in Seeds}
TinyPayloads == {Bytes(l, 8) : l \in 0..1}
Skews == {0, 1}
IdExp == {<<Int32(42), Int32(0)>>, <<Word32(65535, 65535), Word32(32768, 1)>>,
          <<Int32(1), Word32(1, 0)>>}
Priorities == {5, 10}

\* The length fields are exported: a caller may leave them differing from the data.
Skewed(sn, dt, dp) ==
    [sn EXCEPT !.TokenLength = Uint16(@ + dt), !.PayloadLength = Uint16(@ + dp)]

ApnsSimpleInputs ==
    {Skewed(SetPayload(SetToken(NewSimpleNotification, t), p), dt, dp) :
        t \in SmallTokens, p \in Payloads, dt \in Skews, dp \in Skews}
    \cup {SetPayload(SetToken(NewSimpleNotification, t), p) :
             t \in BigTokens, p \in TinyPayloads}

ApnsEnhancedInputs ==
    {Skewed(NewEnhancedNotification(t, p, ie[1], ie[2]), dt, dp) :
        t \in SmallTokens, p \in Payloads, ie \in IdExp, dt \in Skews, dp \in Skews}
    \cup {EnhancedLiteral(t, p, ie[1], ie[2]) :
             t \in SmallTokens, p \in Payloads, ie \in IdExp}
    \cup {NewEnhancedNotification(t, p, Int32(42), Int32(0)) :
             t \in BigTokens, p \in TinyPayloads}

FormatTokens ==
    {HexString(t) : t \in SmallTokens} \cup {<<97, 98, 99>>, <<122, 122>>}
BigFormatTokens == {HexString(t) : t \in BigTokens}
FormatPayloads ==
    {NilJSON, [kind |-> "unsupported", text |-> <<>>],
     [kind |-> "aps", text |-> ExampleText]}
    \cup {[kind |-> "aps", text |-> Text(l, s)] : l \in TextLens, s \in Seeds}

FormatSimpleInputs ==
    {[Command |-> 0, Token |-> t, Payload |-> p] :
        t \in FormatTokens, p \in FormatPayloads}
    \cup {[Command |-> 0, Token |-> t, Payload |-> NilJSON] : t \in BigFormatTokens}

FormatEnhancedInputs ==
    {[Command |-> 0, Token |-> t, Identifier |-> ie[1], Expiry |-> ie[2],
      Payload |-> p] : t \in FormatTokens, p \in FormatPayloads, ie \in IdExp}
    \cup {[Command |-> 0, Token |-> t, Identifier |-> Int32(42),
           Expiry |-> Int32(0), Payload |-> NilJSON] : t \in BigFormatTokens}

FormatNotificationInputs ==
    {[Command |-> 0, Token |-> t, Identifier |-> ie[1], Expiry |-> ie[2],
      Priority |-> pr, Payload |-> p] :
        t \in FormatTokens, p \in FormatPayloads, ie \in IdExp, pr \in Priorities}
    \cup {[Command |-> 0, Token |-> t, Identifier |-> Int32(42),
           Expiry |-> Int32(0), Priority |-> 10, Payload |-> NilJSON] :
             t \in BigFormatTokens}

Packages ==
    {"apns.Simple", "apns.Enhanced", "format.Simple", "format.Enhanced",
     "format.Notification"}

InputsOf(k) ==
    CASE k = "apns.Simple" -> ApnsSimpleInputs
      [] k = "apns.Enhanced" -> ApnsEnhancedInputs
      [] k = "format.Simple" -> FormatSimpleInputs
      [] k = "format.Enhanced" -> FormatEnhancedInputs
      [] k = "format.Notification" -> FormatNotificationInputs

\* new(T): the zero value a decoder is handed.
ZeroOf(k) ==
    CASE k = "apns.Simple" -> SimpleZero
      [] k = "apns.Enhanced" -> EnhancedZero
      [] k = "format.Simple" -> FormatSimpleZero
      [] k = "format.Enhanced" -> FormatEnhancedZero
      [] k = "format.Notification" -> FormatNotificationZero

ChunkSizes == 0..MaxChunk

\* ------------------------------------------- the parts a run leaves alone
NilConn == [type |-> "nil"]
NoSocket == [raddr |-> "", state |-> "none", nodelay |-> "default", tls |-> "none"]
NoTransport == tcpconn = NoSocket
NoSender == procs = <<>> /\ written = <<>> /\ resp = "none"
NoMock == mockErrOpts = [fail |-> 0] /\ rnd = 0

\* ------------------------------------------------------- the state machine
Init ==
    /\ pkg \in Packages
    /\ n \in InputsOf(pkg)
    /\ wire = <<>>
    /\ marks = <<>>
    /\ rpos = 0
    /\ chunk = 0
    /\ out = ZeroOf(pkg)
    /\ err = Nil
    /\ pc = "new"
    /\ room = -1
    /\ packets = <<>>
    /\ NoTransport /\ NoSender /\ NoMock

CanWrite == pc \in {"new", "validated", "written", "sent"} /\ Len(marks) < MaxWrites

\* The stream after an encode call that returned r.
Written(r, where) ==
    /\ wire' = wire \o r.bytes
    /\ err' = r.err
    /\ marks' = Append(marks, Len(wire) + Len(r.bytes))
    /\ pc' = where
    /\ UNCHANGED <<pkg, n, rpos, chunk, out, room, packets, tcpconn, sendVars, mockVars>>

\* The dispatcher has consumed the tag byte of the first record on the stream.
CanRead == pc \in {"written", "sent"} /\ Len(wire) >= 1

Decoded(r, c) ==
    /\ out' = r.n
    /\ rpos' = r.pos
    /\ err' = r.err
    /\ chunk' = c
    /\ pc' = "decoded"
    /\ UNCHANGED <<pkg, n, wire, marks, room, packets, tcpconn, sendVars, mockVars>>

CallSetToken ==
    /\ pkg = "apns.Simple" /\ pc = "new"
    /\ \E t \in (IF Len(n.Payload) <= 1 THEN SmallTokens \cup BigTokens ELSE SmallTokens) :
          n' = SetToken(n, t)
    /\ UNCHANGED <<pkg, wire, marks, rpos, chunk, out, err, pc, room, packets, tcpconn, sendVars, mockVars>>

CallSetPayload ==
    /\ pkg = "apns.Simple" /\ pc = "new"
    /\ \E p \in (IF Len(n.DeviceToken) <= 32 THEN Payloads ELSE TinyPayloads) :
          n' = SetPayload(n, p)
    /\ UNCHANGED <<pkg, wire, marks, rpos, chunk, out, err, pc, room, packets, tcpconn, sendVars, mockVars>>

CallSimpleValidate ==
    /\ pkg = "apns.Simple" /\ pc = "new"
    /\ err' = SimpleValidate(n)
    /\ pc' = "validated"
    /\ UNCHANGED <<pkg, n, wire, marks, rpos, chunk, out, room, packets, tcpconn, sendVars, mockVars>>

CallEnhancedValidate ==
    /\ pkg = "apns.Enhanced" /\ pc = "new"
    /\ err' = EnhancedValidate(n)
    /\ pc' = "validated"
    /\ UNCHANGED <<pkg, n, wire, marks, rpos, chunk, out, room, packets, tcpconn, sendVars, mockVars>>

CallSimpleWriteTo == pkg = "apns.Simple" /\ CanWrite /\ Written(SimpleWriteTo(n), "written")

CallSend == pkg = "apns.Simple" /\ CanWrite /\ Written(Send(n), "sent")

CallEnhancedWrite == pkg = "apns.Enhanced" /\ CanWrite /\ Written(EnhancedWrite(n), "written")

CallSendValidated == pkg = "apns.Enhanced" /\ CanWrite /\ Written(SendValidated(n), "sent")

CallFormatSimpleWriteTo ==
    pkg = "format.Simple" /\ CanWrite /\ Written(FormatSimpleWriteTo(n), "written")

CallFormatEnhancedWriteTo ==
    pkg = "format.Enhanced" /\ CanWrite /\ Written(FormatEnhancedWriteTo(n), "written")

CallFormatNotificationWriteTo ==
    pkg = "format.Notification" /\ CanWrite
    /\ Written(FormatNotificationWriteTo(n), "written")

CallSimpleReadFrom ==
    /\ pkg = "apns.Simple" /\ CanRead
    /\ \E c \in ChunkSizes : Decoded(SimpleReadFrom(out, wire, 1, c), c)

CallFormatSimpleReadFrom ==
    /\ pkg = "format.Simple" /\ CanRead
    /\ \E c \in ChunkSizes : Decoded(FormatSimpleReadFrom(out, wire, 1, c), c)

CallFormatEnhancedReadFrom ==
    /\ pkg = "format.Enhanced" /\ CanRead
    /\ \E c \in ChunkSizes : Decoded(FormatEnhancedReadFrom(out, wire, 1, c), c)

CallFormatNotificationReadFrom ==
    /\ pkg = "format.Notification" /\ CanRead
    /\ \E c \in ChunkSizes : Decoded(FormatNotificationReadFrom(out, wire, 1, c), c)

Next ==
    \/ CallSetToken
    \/ CallSetPayload
    \/ CallSimpleValidate
    \/ CallEnhancedValidate
    \/ CallSimpleWriteTo
    \/ CallSend
    \/ CallEnhancedWrite
    \/ CallSendValidated
    \/ CallFormatSimpleWriteTo
    \/ CallFormatEnhancedWriteTo
    \/ CallFormatNotificationWriteTo
    \/ CallSimpleReadFrom
    \/ CallFormatSimpleReadFrom
    \/ CallFormatEnhancedReadFrom
    \/ CallFormatNotificationReadFrom

Spec == Init /\ [][Next]_vars

\* ------------------------------------------- encoding to a failing writer
MaxRoom == 6     \* writers that fail after 0..MaxRoom bytes

Statuses == {0, InvalidTokenStatus, UnknownStatus}

\* apns.ErrorResponse values: NewErrorResponse with its fields set, and the
\* mock server's literal.
ErrorResponseInputs ==
    {[NewErrorResponse EXCEPT !.Status = s, !.Identifier = ie[1]] :
        s \in Statuses, ie \in IdExp}
    \cup {MockErrResponse(EnhancedLiteral(<<>>, <<>>, ie[1], ie[2])) : ie \in IdExp}

\* format.NotificationError has no constructor: a literal, with or without Command.
NotificationErrorInputs ==
    {[Command |-> c, Status |-> s, Identifier |-> ie[1]] :
        c \in {0, NotificationErrorCMD}, s \in Statuses, ie \in IdExp}

Encoders == Packages \cup {"apns.ErrorResponse", "format.NotificationError"}

\* The values encoded to a failing writer: the short ones.
ConnInputsOf(k) ==
    CASE k = "apns.ErrorResponse" -> ErrorResponseInputs
      [] k = "format.NotificationError" -> NotificationErrorInputs
      [] k \in {"apns.Simple", "apns.Enhanced"} ->
            {v \in InputsOf(k) : Len(v.DeviceToken) <= MaxLen /\ Len(v.Payload) <= MaxLen}
      [] OTHER ->
            {v \in InputsOf(k) : Len(v.Token) <= 2 * MaxLen /\ Len(v.Payload.text) <= MaxLen}

ConnInit ==
    /\ pkg \in Encoders
    /\ n \in ConnInputsOf(pkg)
    /\ room \in -1..MaxRoom
    /\ wire = <<>>
    /\ marks = <<>>
    /\ rpos = 0
    /\ chunk = 0
    /\ out = <<>>
    /\ err = Nil
    /\ pc = "new"
    /\ packets = <<>>
    /\ NoTransport /\ NoSender /\ NoMock

\* The stream and the writer after an encode call that returned r.
Sent(r) ==
    /\ Len(marks) < MaxWrites
    /\ wire' = wire \o r.bytes
    /\ err' = r.err
    /\ marks' = Append(marks, Len(wire) + Len(r.bytes))
    /\ room' = IF room = -1 THEN -1 ELSE room - Len(r.bytes)
    /\ pc' = "written"
    /\ UNCHANGED <<pkg, n, rpos, chunk, out, packets, tcpconn, sendVars, mockVars>>

ConnSimpleWriteTo ==
    pkg = "apns.Simple" /\ Sent(OnWriter(SimpleWriteTo(n), room, FALSE))

ConnEnhancedWrite ==
    pkg = "apns.Enhanced" /\ Sent(OnWriter(EnhancedWrite(n), room, FALSE))

ConnFormatSimpleWriteTo ==
    pkg = "format.Simple" /\ Sent(OnWriter(FormatSimpleWriteTo(n), room, TRUE))

ConnFormatEnhancedWriteTo ==
    pkg = "format.Enhanced" /\ Sent(OnWriter(FormatEnhancedWriteTo(n), room, TRUE))

ConnFormatNotificationWriteTo ==
    pkg = "format.Notification"
    /\ Sent(OnWriter(FormatNotificationWriteTo(n), room, TRUE))

ConnErrorResponseWriteTo ==
    pkg \in {"apns.ErrorResponse", "format.NotificationError"}
    /\ Sent(OnWriter(ErrorResponseWriteTo(n), room, TRUE))

ConnNext ==
    \/ ConnSimpleWriteTo
    \/ ConnEnhancedWrite
    \/ ConnFormatSimpleWriteTo
    \/ ConnFormatEnhancedWriteTo
    \/ ConnFormatNotificationWriteTo
    \/ ConnErrorResponseWriteTo

ConnSpec == ConnInit /\ [][ConnNext]_vars

\* ------------------------------------------------ reading from a stream
MaxRecords == 2  \* records put on a stream back to back

FieldLens == {0, MaxLen}

\* What a peer puts on a stream read by package apns: records of its encoders,
\* a tag-2 record and bytes that start no record.
ApnsRecords ==
    {[v |-> v, bytes |-> SimpleWriteTo(v).bytes] :
        v \in {SetPayload(SetToken(NewSimpleNotification, Bytes(l, 0)), Bytes(m, 8)) :
                  l \in FieldLens, m \in FieldLens}}
    \cup {[v |-> v, bytes |-> EnhancedWrite(v).bytes] :
            v \in {NewEnhancedNotification(Bytes(l, 0), Bytes(MaxLen, 8), Int32(42),
                                           Word32(1, 0)) : l \in FieldLens}}
    \cup {[v |-> v, bytes |-> ErrorResponseWriteTo(v).bytes] :
            v \in {[NewErrorResponse EXCEPT !.Status = InvalidTokenStatus,
                                            !.Identifier = Int32(1)],
                   [NewErrorResponse EXCEPT !.Status = UnknownStatus,
                                            !.Identifier = Word32(32768, 258)]}}

\* The same for package format.
FormatRecords ==
    {[v |-> v, bytes |-> FormatSimpleWriteTo(v).bytes] :
        v \in {[Command |-> 0, Token |-> HexString(Bytes(l, 0)),
                Payload |-> [kind |-> "aps", text |-> Text(MaxLen, 0)]] :
                  l \in FieldLens}}
    \cup {[v |-> v, bytes |-> FormatEnhancedWriteTo(v).bytes] :
            v \in {[Command |-> 0, Token |-> HexString(Bytes(l, 0)),
                    Identifier |-> Int32(42), Expiry |-> Word32(1, 0),
                    Payload |-> NilJSON] : l \in FieldLens}}
    \cup {[v |-> v, bytes |-> ErrorResponseWriteTo(v).bytes] :
            v \in {[Command |-> NotificationErrorCMD, Status |-> InvalidTokenStatus,
                    Identifier |-> Int32(1)],
                   [Command |-> NotificationErrorCMD, Status |-> UnknownStatus,
                    Identifier |-> Word32(32768, 258)]}}

FramedRecords ==
    {[v |-> v, bytes |-> FormatNotificationWriteTo(v).bytes] :
        v \in {[Command |-> 0, Token |-> HexString(Bytes(1, 0)), Identifier |-> Int32(42),
                Expiry |-> Int32(0), Priority |-> 10, Payload |-> NilJSON]}}

\* Bytes whose first is no tag: 99, and 200 (negative as an int8).
UnknownRecords ==
    {[v |-> [Command |-> b], bytes |-> <<b, 7, 8>>] : b \in {99, 200}}

RecordsOf(k) ==
    (IF k = "apns" THEN ApnsRecords ELSE FormatRecords)
    \cup FramedRecords \cup UnknownRecords

RECURSIVE Concat(_)
Concat(rs) == IF rs = <<>> THEN <<>> ELSE Head(rs).bytes \o Concat(Tail(rs))

RECURSIVE Ends(_, _)
Ends(rs, at) ==
    IF rs = <<>> THEN <<>>
    ELSE <<at + Len(Head(rs).bytes)>> \o Ends(Tail(rs), at + Len(Head(rs).bytes))

RecordSeqs(k) == UNION {[1..j -> RecordsOf(k)] : j \in 0..MaxRecords}

\* A connection a peer wrote records to and then closed, perhaps anywhere
\* inside the last record; the reader hands out at most chunk bytes per Read call.
StreamInit ==
    /\ pkg \in {"apns", "format"}
    /\ n \in RecordSeqs(pkg)
    /\ \E cut \in 0..(IF n = <<>> THEN 0 ELSE Len(n[Len(n)].bytes) - 1) :
          wire = SubSeq(Concat(n), 1, Len(Concat(n)) - cut)
    /\ marks = Ends(n, 0)
    /\ chunk \in ChunkSizes
    /\ rpos = 0
    /\ out = NilPacket
    /\ err = Nil
    /\ pc = "AwaitingTag"
    /\ room = -1
    /\ packets = <<>>
    /\ NoTransport /\ NoSender /\ NoMock

\* The caller's loop (handleClient, readResp): it calls ReadCommand again after
\* a packet and stops at the first error.
Returned(r) ==
    /\ out' = r.p
    /\ rpos' = r.pos
    /\ err' = r.err
    /\ packets' = IF r.err = Nil THEN Append(packets, r.p) ELSE packets
    /\ pc' = IF r.err = Nil THEN "AwaitingTag" ELSE "Done"
    /\ UNCHANGED <<pkg, n, wire, marks, chunk, room, tcpconn, sendVars, mockVars>>

CallApnsReadCommand ==
    pkg = "apns" /\ pc = "AwaitingTag" /\ Returned(ApnsReadCommand(wire, rpos, chunk))

CallReadCommand ==
    pkg = "format" /\ pc = "AwaitingTag" /\ Returned(ReadCommand(wire, rpos, chunk))

StreamNext ==
    \/ CallApnsReadCommand
    \/ CallReadCommand

StreamSpec == StreamInit /\ [][StreamNext]_vars

\* ------------------------------------------------------ dialing the service
DISTRIBUTION == 0
SANDBOX == 1

\* Go arrays indexed by Environment: entry env is element env + 1 here.
pushHosts_Swapped ==
    <<"gateway.sandbox.push.apple.com:2195", "gateway.push.apple.com:2195">>

pushHosts ==
    <<"gateway.push.apple.com:2195", "gateway.sandbox.push.apple.com:2195">>

feedbackHosts ==
    <<"feedback.push.apple.com:2196", "feedback.sandbox.push.apple.com:2196">>

\* The call each entry point makes: which function dials, to which address,
\* with which certificate (and, for Dial, which delay).
Dial(cer, host, delay) == [fn |-> "Dial", cer |-> cer, host |-> host, delay |-> delay]

connect(cer, gateway) == [fn |-> "connect", cer |-> cer, host |-> gateway]

DialAPNS(cer, env, delay) == Dial(cer, pushHosts[env + 1], delay)

DialFeedback(cer, env) == Dial(cer, feedbackHosts[env + 1], FALSE)

Connect(cer, env, delay) == connect(cer, pushHosts[env + 1])

ConnectFeedback(cer, env) == connect(cer, feedbackHosts[env + 1])

\* A certificate is "cer" (a *tls.Certificate) or Nil.
Certificates == {Nil, "cer"}
Environments == {DISTRIBUTION, SANDBOX}
CustomGateways == {"localhost:2195"}

DialCalls ==
    [fn : {"DialAPNS", "Connect"}, cer : Certificates, env : Environments, delay : BOOLEAN]
    \cup [fn : {"DialFeedback", "ConnectFeedback"}, cer : Certificates, env : Environments]
    \cup [fn : {"Dial"}, cer : Certificates, host : CustomGateways, delay : BOOLEAN]

\* The dialing function the entry point n.fn runs, with its arguments.
Callee ==
    CASE n.fn = "DialAPNS" -> DialAPNS(n.cer, n.env, n.delay)
      [] n.fn = "DialFeedback" -> DialFeedback(n.cer, n.env)
      [] n.fn = "Connect" -> Connect(n.cer, n.env, n.delay)
      [] n.fn = "ConnectFeedback" -> ConnectFeedback(n.cer, n.env)
      [] n.fn = "Dial" -> Dial(n.cer, n.host, n.delay)

\* tcpconn.SetNoDelay(noDelay)
SetNoDelay(sock, noDelay) == [sock EXCEPT !.nodelay = IF noDelay THEN "true" ELSE "false"]

\* What the call gives back once tlsconn.Handshake() has returned (ok: it
\* returned no error): Dial returns the TLS connection, connect a Connection
\* which ConnectFeedback returns as it is and Connect still configures.
Handshake_Unchecked(fn, ok) ==
    [out |-> [type |-> "tls.Conn"], err |-> Nil, pc |-> "returned"]

Handshake(fn, ok) ==
    IF ~ok THEN [out |-> NilConn, err |-> "handshake failure", pc |-> "returned"]
    ELSE CASE fn = "Connect" -> [out |-> [type |-> "Connection"], err |-> Nil,
                                 pc |-> "connect returned"]
           [] fn = "ConnectFeedback" -> [out |-> [type |-> "Connection"], err |-> Nil,
                                         pc |-> "returned"]
           [] OTHER -> [out |-> [type |-> "tls.Conn"], err |-> Nil, pc |-> "returned"]

DialInit ==
    /\ pkg = "dial"
    /\ n \in DialCalls
    /\ wire = <<>> /\ marks = <<>> /\ rpos = 0 /\ chunk = 0 /\ room = -1
    /\ packets = <<>>
    /\ out = NilConn
    /\ err = Nil
    /\ pc = "called"
    /\ tcpconn = NoSocket
    /\ NoSender /\ NoMock

DialFrame == UNCHANGED <<pkg, n, wire, marks, rpos, chunk, room, packets, sendVars, mockVars>>

\* net.ResolveTCPAddr("tcp", host)
ResolveTCPAddr ==
    /\ pkg = "dial" /\ pc = "called"
    /\ tcpconn' = [tcpconn EXCEPT !.raddr = Callee.host]
    /\ \E ok \in BOOLEAN :
          IF ok THEN pc' = "resolved" /\ UNCHANGED <<out, err>>
          ELSE pc' = "returned" /\ out' = NilConn /\ err' = "no such host"
    /\ DialFrame

\* net.DialTCP("tcp", nil, raddr)
DialTCP ==
    /\ pkg = "dial" /\ pc = "resolved"
    /\ \E ok \in BOOLEAN :
          IF ok THEN /\ pc' = "connected"
                     /\ tcpconn' = [tcpconn EXCEPT !.state = "open"]
                     /\ UNCHANGED <<out, err>>
          ELSE /\ pc' = "returned" /\ out' = NilConn /\ err' = "connection refused"
               /\ UNCHANGED tcpconn
    /\ DialFrame

\* Dial: tcpconn.SetNoDelay(!delay), right after the connect
DialSetNoDelay ==
    /\ pkg = "dial" /\ pc = "connected" /\ Callee.fn = "Dial"
    /\ tcpconn' = SetNoDelay(tcpconn, ~Callee.delay)
    /\ pc' = "configured"
    /\ UNCHANGED <<out, err>>
    /\ DialFrame

\* Dial: if cer == nil { return tcpconn, nil }
DialReturnTCP ==
    /\ pkg = "dial" /\ pc = "configured" /\ Callee.cer = Nil
    /\ out' = [type |-> "TCPConn"]
    /\ err' = Nil
    /\ pc' = "returned"
    /\ UNCHANGED tcpconn
    /\ DialFrame

\* conf := &tls.Config{Certificates: []tls.Certificate{*cer}}; tls.Client(tcpconn, conf).
\* connect dereferences cer without a nil check.
TLSClient ==
    /\ pkg = "dial"
    /\ \/ pc = "configured" /\ Callee.cer # Nil
       \/ pc = "connected" /\ Callee.fn = "connect"
    /\ IF Callee.cer = Nil
       THEN /\ pc' = "panicked"
            /\ err' = "invalid memory address or nil pointer dereference"
            /\ UNCHANGED <<out, tcpconn>>
       ELSE /\ pc' = "wrapped"
            /\ tcpconn' = [tcpconn EXCEPT !.tls = "client"]
            /\ UNCHANGED <<out, err>>
    /\ DialFrame

\* tlsconn.Handshake() and the return that follows it
CallHandshake ==
    /\ pkg = "dial" /\ pc = "wrapped"
    /\ \E ok \in BOOLEAN :
          /\ tcpconn' = [tcpconn EXCEPT !.tls = IF ok THEN "established" ELSE "failed"]
          /\ out' = Handshake(n.fn, ok).out
          /\ err' = Handshake(n.fn, ok).err
          /\ pc' = Handshake(n.fn, ok).pc
    /\ DialFrame

\* Connect: conn.tcpconn.SetNoDelay(!delay); return &PushConnection{*conn}, nil
ConnectSetNoDelay ==
    /\ pkg = "dial" /\ pc = "connect returned"
    /\ tcpconn' = SetNoDelay(tcpconn, ~n.delay)
    /\ out' = [type |-> "PushConnection"]
    /\ pc' = "returned"
    /\ UNCHANGED err
    /\ DialFrame

DialNext ==
    \/ ResolveTCPAddr
    \/ DialTCP
    \/ DialSetNoDelay
    \/ DialReturnTCP
    \/ TLSClient
    \/ CallHandshake
    \/ ConnectSetNoDelay

DialSpec == DialInit /\ [][DialNext]_vars

\* ---------------------------------------------------------- the mock server
\* mockErr with the value i that rand.Intn(101-1) + 1 gave: the error it
\* returns (Nil, io.EOF, or the ErrorResponse resp, which is the error itself).
mockErr(opts, i, p) ==
    IF i < opts.fail
    THEN IF p.type = "EnhancedNotification"
         THEN [err |-> "ErrorResponse", resp |-> MockErrResponse(p.v)]
         ELSE [err |-> "EOF", resp |-> NilPacket]
    ELSE [err |-> Nil, resp |-> NilPacket]

\* rand.Intn(101-1) + 1
Draws == {i + 1 : i \in 0..(101 - 1 - 1)}

\* The values of -fail that main accepts as a percentage.
FailOptions == 0..100

\* The notifications handleClient gets from ReadCommand.
Received ==
    {[type |-> "SimpleNotification", v |-> SimpleZero]}
    \cup {[type |-> "EnhancedNotification", v |-> EnhancedLiteral(<<>>, <<>>, ie[1], ie[2])] :
            ie \in IdExp}

MockInit ==
    /\ pkg = "apnserver"
    /\ n \in Received
    /\ mockErrOpts \in [fail : FailOptions]
    /\ rnd = 0
    /\ wire = <<>> /\ marks = <<>> /\ rpos = 0 /\ chunk = 0 /\ room = -1
    /\ packets = <<>>
    /\ out = NilPacket
    /\ err = Nil
    /\ pc = "received"
    /\ NoTransport /\ NoSender

\* One turn of handleClient's loop after ReadCommand returned n: mockErr, then
\* the response is written to the connection, or the connection is closed, or
\* the loop goes on to the next notification.
HandleClient ==
    /\ pkg = "apnserver" /\ pc = "received"
    /\ \E i \in Draws :
          LET r == mockErr(mockErrOpts, i, n) IN
          /\ rnd' = i
          /\ err' = r.err
          /\ out' = r.resp
          /\ wire' = IF r.err = "ErrorResponse"
                     THEN wire \o ErrorResponseWriteTo(r.resp).bytes ELSE wire
          /\ pc' = CASE r.err = Nil -> "continue"
                     [] r.err = "ErrorResponse" -> "responded"
                     [] OTHER -> "closed"
    /\ UNCHANGED <<pkg, n, marks, rpos, chunk, room, packets, tcpconn, sendVars,
                   mockErrOpts>>

MockNext == HandleClient

MockSpec == MockInit /\ [][MockNext]_vars

\* ------------------------------------------------------------------ apnsend
MaxRepeat == 1   \* -repeat 0..MaxRepeat
MaxTokens == 2   \* at most MaxTokens tokens on the command line

\* Tokens as typed on the command line: one that is hex and one that is not.
TokenArgs == {HexString(ExampleToken), <<122, 122>>}

APNOptions ==
    [repeat : 0..MaxRepeat,
     tokens : UNION {[1..k -> TokenArgs] : k \in 0..MaxTokens}]

\* payload(payloadOpts) with -text given: {"aps":{"alert":text}}
payload == JSONMarshal([kind |-> "aps", text |-> ExampleText])

\* The notification the sender builds for a decoded token when neither -expiry
\* nor -ttl is given: a SimpleNotification literal.
MakeNotification(token) ==
    [SimpleZero EXCEPT !.TokenLength = Uint16(Len(token)), !.DeviceToken = token,
                       !.PayloadLength = Uint16(Len(payload.bytes)),
                       !.Payload = payload.bytes]

\* The process runs until main returns or some goroutine calls os.Exit.
Running == procs.main \notin {"returned", "exit 1"}

SendInit ==
    /\ pkg \in {"apnsend", "apnsend.part_006"}
    /\ n \in APNOptions
    /\ procs = [main |-> IF pkg = "apnsend" THEN "select" ELSE "loop",
                readResp |-> "ReadCommand",
                apnMake |-> IF pkg = "apnsend" THEN "loop" ELSE "none",
                i |-> n.repeat, t |-> 1, k |-> 0, cur |-> 0]
    /\ written = <<>>
    /\ resp = "none"
    /\ wire = <<>> /\ marks = <<>> /\ rpos = 0 /\ chunk = 0 /\ room = -1
    /\ packets = <<>>
    /\ out = NilPacket
    /\ err = Nil
    /\ pc = "running"
    /\ NoTransport /\ NoMock

SendFrame == UNCHANGED <<pkg, n, marks, rpos, chunk, room, packets, pc, tcpconn, mockVars>>

\* The peer answers at a moment of its choosing: an error response, or it
\* closes the connection.
PeerResponds ==
    /\ pkg \in {"apnsend", "apnsend.part_006"} /\ Running /\ resp = "none"
    /\ resp' \in {"ErrorResponse", "EOF"}
    /\ UNCHANGED <<procs, written, wire, out, err>>
    /\ SendFrame

\* readResp: apns.ReadCommand(r) returns; the goroutine then blocks on errc.
ReadResp ==
    /\ pkg = "apnsend" /\ Running
    /\ procs.readResp = "ReadCommand" /\ resp # "none"
    /\ procs' = [procs EXCEPT !.readResp = "errc <- err"]
    /\ UNCHANGED <<written, resp, wire, out, err>>
    /\ SendFrame

\* apnMake: from the head of the loops to its next channel operation.
ApnMake ==
    /\ pkg = "apnsend" /\ Running /\ procs.apnMake = "loop"
    /\ procs' =
          IF procs.i < 0 THEN [procs EXCEPT !.apnMake = "Sleep"]
          ELSE IF procs.t > Len(n.tokens) THEN [procs EXCEPT !.i = @ - 1, !.t = 1]
          ELSE IF HexDecodeString(n.tokens[procs.t]).err # Nil
          THEN [procs EXCEPT !.apnMake = "errc <- err"]
          ELSE [procs EXCEPT !.apnMake = "apnc <- n", !.k = @ + 1]
    /\ UNCHANGED <<written, resp, wire, out, err>>
    /\ SendFrame

\* apnMake: time.Sleep(5000 * time.Millisecond), then it blocks on quit.
Sleep ==
    /\ pkg = "apnsend" /\ Running /\ procs.apnMake = "Sleep"
    /\ procs' = [procs EXCEPT !.apnMake = "quit <- 0"]
    /\ UNCHANGED <<written, resp, wire, out, err>>
    /\ SendFrame

\* main: case n := <-apnc, meeting apnMake's send on the unbuffered channel.
SelectApnc ==
    /\ pkg = "apnsend" /\ procs.main = "select" /\ procs.apnMake = "apnc <- n"
    /\ out' = MakeNotification(HexDecodeString(n.tokens[procs.t]).bytes)
    /\ procs' = [procs EXCEPT !.main = "WriteTo", !.cur = procs.k,
                              !.apnMake = "loop", !.t = @ + 1]
    /\ UNCHANGED <<written, resp, wire, err>>
    /\ SendFrame

\* main: err := n.WriteTo(conn); a non-nil err ends the process.
WriteTo ==
    /\ pkg = "apnsend" /\ procs.main = "WriteTo"
    /\ LET r == SimpleWriteTo(out) IN
          /\ wire' = wire \o r.bytes
          /\ written' = Append(written, procs.cur)
          /\ err' = r.err
          /\ procs' = [procs EXCEPT !.main = IF r.err = Nil THEN "select" ELSE "exit 1"]
    /\ UNCHANGED <<resp, out>>
    /\ SendFrame

\* main: case err := <-errc, meeting the send of readResp or of apnMake.
SelectErrc ==
    /\ pkg = "apnsend" /\ procs.main = "select"
    /\ \/ /\ procs.readResp = "errc <- err"
          /\ err' = resp
       \/ /\ procs.apnMake = "errc <- err"
          /\ err' = HexDecodeString(n.tokens[procs.t]).err
    /\ procs' = [procs EXCEPT !.main = "exit 1"]
    /\ UNCHANGED <<written, resp, wire, out>>
    /\ SendFrame

\* main: case <-quit
SelectQuit ==
    /\ pkg = "apnsend" /\ procs.main = "select" /\ procs.apnMake = "quit <- 0"
    /\ procs' = [procs EXCEPT !.main = "returned"]
    /\ UNCHANGED <<written, resp, wire, out, err>>
    /\ SendFrame

\* The earlier apnsend (one file, no channels): main sends in its own loop and
\* a goroutine reads the responses.
\* main: one turn of the token loop (decode, build, WriteTo with the result
\* dropped), or, the tokens done, on to the Sleep that sits inside the repeat loop.
OldSend ==
    /\ pkg = "apnsend.part_006" /\ procs.main = "loop"
    /\ IF procs.t > Len(n.tokens)
       THEN /\ procs' = [procs EXCEPT !.main = "Sleep"]
            /\ UNCHANGED <<written, wire, out, err>>
       ELSE LET token == HexDecodeString(n.tokens[procs.t]) IN
            IF token.err # Nil
            THEN /\ procs' = [procs EXCEPT !.main = "exit 1"]
                 /\ err' = token.err
                 /\ UNCHANGED <<written, wire, out>>
            ELSE /\ out' = MakeNotification(token.bytes)
                 /\ wire' = wire \o SimpleWriteTo(MakeNotification(token.bytes)).bytes
                 /\ written' = Append(written, procs.k + 1)
                 /\ procs' = [procs EXCEPT !.k = @ + 1, !.cur = procs.k + 1, !.t = @ + 1]
                 /\ UNCHANGED err
    /\ UNCHANGED resp
    /\ SendFrame

\* main: time.Sleep(5000 * time.Millisecond); return
OldReturn ==
    /\ pkg = "apnsend.part_006" /\ procs.main = "Sleep"
    /\ procs' = [procs EXCEPT !.main = "returned"]
    /\ UNCHANGED <<written, resp, wire, out, err>>
    /\ SendFrame

\* the reading goroutine: apns.ReadCommand(conn) returns
OldReadCommand ==
    /\ pkg = "apnsend.part_006" /\ Running
    /\ procs.readResp = "ReadCommand" /\ resp # "none"
    /\ procs' = [procs EXCEPT !.readResp = "IfErrExit"]
    /\ UNCHANGED <<written, resp, wire, out, err>>
    /\ SendFrame

\* the reading goroutine: IfErrExit prints the error and calls os.Exit(1)
IfErrExit ==
    /\ pkg = "apnsend.part_006" /\ Running /\ procs.readResp = "IfErrExit"
    /\ procs' = [procs EXCEPT !.main = "exit 1"]
    /\ err' = resp
    /\ UNCHANGED <<written, resp, wire, out>>
    /\ SendFrame

SendNext ==
    \/ PeerResponds
    \/ ReadResp
    \/ ApnMake
    \/ Sleep
    \/ SelectApnc
    \/ WriteTo
    \/ SelectErrc
    \/ SelectQuit
    \/ OldSend
    \/ OldReturn
    \/ OldReadCommand
    \/ IfErrExit

SendSpec == SendInit /\ [][SendNext]_vars

\* ================================================================ claims
\* What the notification under test carries, as bytes.
TokenOf(k, v) ==
    IF k \in {"apns.Simple", "apns.Enhanced"} THEN v.DeviceToken
    ELSE HexDecodeString(v.Token).bytes
PayloadOf(k, v) ==
    IF k \in {"apns.Simple", "apns.Enhanced"} THEN v.Payload
    ELSE JSONMarshal(v.Payload).bytes
\* The encoder has what it needs: the declared lengths are the actual ones
\* (package apns), the token is hex and the payload marshals (package format).
WellFormed(k, v) ==
    IF k \in {"apns.Simple", "apns.Enhanced"}
    THEN v.TokenLength = Len(v.DeviceToken) /\ v.PayloadLength = Len(v.Payload)
    ELSE HexDecodeString(v.Token).err = Nil /\ JSONMarshal(v.Payload).err = Nil
\* The bytes the i-th encode call put on the stream.
Record(i) == SubSeq(wire, (IF i = 1 THEN 0 ELSE marks[i - 1]) + 1, marks[i])
Encoded == pc \in {"written", "sent"}
MaxUint16 == 2^16 - 1

\* C1: Simple round trip. For every Simple notification with token length in
\* {0, 1, 32, 65535} and payload length in {0, 1, 256}, WriteTo, then the tag
\* byte consumed, then ReadFrom leaves the caller with a notification of the
\* same token length, token, payload length and payload.
C1_SimpleRoundTrip ==
    (/\ pc = "decoded"
     /\ pkg \in {"apns.Simple", "format.Simple"}
     /\ WellFormed(pkg, n)
     /\ Len(TokenOf(pkg, n)) \in {0, 1, 32, MaxUint16}
     /\ Len(PayloadOf(pkg, n)) \in {0, 1, MaxSimplePayloadSize})
    => /\ err = Nil
       /\ IF pkg = "apns.Simple"
          THEN /\ out.TokenLength = n.TokenLength
               /\ out.DeviceToken = n.DeviceToken
               /\ out.PayloadLength = n.PayloadLength
               /\ out.Payload = n.Payload
          ELSE out.Token = n.Token /\ out.Payload = n.Payload

\* C2: Enhanced round trip. After ReadFrom returns, the notification the
\* caller holds has the identifier, expiry, token and payload of the one that
\* was encoded (checked on a reader that never returns short).
C2_EnhancedRoundTrip ==
    (/\ pc = "decoded"
     /\ pkg = "format.Enhanced"
     /\ WellFormed(pkg, n)
     /\ chunk = 0)
    => /\ err = Nil
       /\ out.Identifier = n.Identifier
       /\ out.Expiry = n.Expiry
       /\ out.Token = n.Token
       /\ out.Payload = n.Payload

\* C3: Framed round trip. Decoding the bytes an encode of a tag-2 notification
\* produced yields its token, payload, identifier, expiry and priority, and
\* the decoder has consumed the record.
C3_FramedRoundTrip ==
    (/\ pc = "decoded"
     /\ pkg = "format.Notification"
     /\ WellFormed(pkg, n)
     /\ chunk = 0)
    => /\ err = Nil
       /\ rpos = marks[1]
       /\ out.Token = n.Token
       /\ out.Payload = n.Payload
       /\ out.Identifier = n.Identifier
       /\ out.Expiry = n.Expiry
       /\ out.Priority = n.Priority

\* C4: encoding or sending a Simple or Enhanced notification whose payload is
\* longer than 256 bytes returns an error and puts none of its bytes on the
\* stream.
C4_OversizePayloadRejected ==
    (/\ Encoded
     /\ pkg \in {"apns.Simple", "apns.Enhanced", "format.Simple", "format.Enhanced"}
     /\ Len(PayloadOf(pkg, n)) > MaxPayloadSize)
    => err # Nil /\ wire = <<>>

\* C5: encoding fails whenever the token or the payload is longer than a
\* 16-bit length field can say (65535 bytes); no record with a truncated
\* length field is emitted.
C5_OverlongRejected ==
    (/\ Encoded
     /\ \/ Len(TokenOf(pkg, n)) > MaxUint16
        \/ Len(PayloadOf(pkg, n)) > MaxUint16)
    => err # Nil /\ Len(wire) <= MaxUint16

\* C6: Validate succeeds only when both declared lengths equal the actual byte
\* counts and the payload is at most 256 bytes; it fails for every other
\* Simple or Enhanced notification.
C6_ValidateExact ==
    (pc = "validated" /\ err = Nil)
    => /\ n.TokenLength = Len(n.DeviceToken)
       /\ n.PayloadLength = Len(n.Payload)
       /\ Len(n.Payload) <= MaxPayloadSize

\* The four bytes of a 32-bit value, high byte first, spelled out.
Bytes32(v) == <<v[1] \div 256, v[1] % 256, v[2] \div 256, v[2] % 256>>
\* The length a Simple or Enhanced record should declare for its token and
\* payload: the notification's length fields (package apns), the byte counts of
\* the decoded token and the marshalled payload (package format).
TokenLengthOf(k, v) ==
    IF k \in {"apns.Simple", "apns.Enhanced"} THEN v.TokenLength ELSE Len(TokenOf(k, v))
PayloadLengthOf(k, v) ==
    IF k \in {"apns.Simple", "apns.Enhanced"} THEN v.PayloadLength
    ELSE Len(PayloadOf(k, v))
\* Both lengths fit the 16-bit fields of the record.
Representable(k, v) ==
    Len(TokenOf(k, v)) <= MaxUint16 /\ Len(PayloadOf(k, v)) <= MaxUint16

\* r is tag, token length (2, BE), token, payload length (2, BE), payload and
\* nothing else, the fields starting after the first h bytes of r.
LengthPrefixedPair(r, h, tl, tok, pl, pay) ==
    LET L == Len(tok)
        P == Len(pay)
    IN /\ Len(r) = h + 2 + L + 2 + P
       /\ r[h + 1] * 256 + r[h + 2] = tl
       /\ SubSeq(r, h + 3, h + 2 + L) = tok
       /\ r[h + 3 + L] * 256 + r[h + 4 + L] = pl
       /\ SubSeq(r, h + 5 + L, h + 4 + L + P) = pay

C8_EnhancedLayout ==
    (/\ Encoded
     /\ pkg \in {"apns.Enhanced", "format.Enhanced"}
     /\ err = Nil
     /\ WellFormed(pkg, n)
     /\ Representable(pkg, n))
    => \A i \in 1..Len(marks) :
          /\ Record(i)[1] = 1
          /\ SubSeq(Record(i), 2, 5) = Bytes32(n.Identifier)
          /\ SubSeq(Record(i), 6, 9) = Bytes32(n.Expiry)
          /\ LengthPrefixedPair(Record(i), 9, Len(TokenOf(pkg, n)), TokenOf(pkg, n),
                                Len(PayloadOf(pkg, n)), PayloadOf(pkg, n))

\* The frame length field of a tag-2 record r.
FrameLengthField(r) == r[2] * (2^24) + r[3] * (2^16) + r[4] * 256 + r[5]

\* C9: in every Framed record the encoder emits, the 4-byte big-endian frame
\* length equals the sum over the emitted items of 1 + 2 + len(itemData), which
\* is the number of bytes that follow the 5-byte tag + frame length header.
C9_FrameLength ==
    (Encoded /\ pkg = "format.Notification" /\ err = Nil)
    => \A i \in 1..Len(marks) :
          /\ FrameLengthField(Record(i)) = Len(Record(i)) - 5
          /\ FrameLengthField(Record(i)) =
                (1 + 2 + Len(TokenOf(pkg, n))) + (1 + 2 + Len(PayloadOf(pkg, n)))
                + (1 + 2 + 4) + (1 + 2 + 4) + (1 + 2 + 1)

C9_Witness ==
    /\ Encoded
    /\ pkg = "format.Notification"
    /\ err = Nil
    /\ n.Token = HexString(ExampleToken)
    /\ n.Payload = [kind |-> "aps", text |-> ExampleText]
    /\ n.Identifier = Int32(42)
    /\ n.Expiry = Int32(0)
    /\ n.Priority = 10
    /\ FrameLengthField(Record(1)) = 7 + 34 + 7 + 7 + 4

\* C10: Framed encoding is ordered and deterministic. Every record the encoder
\* emits holds, after the header, the token item (tag 1), the payload item
\* (2), the identifier item (3, 4 data bytes), the expiry item (4, 4 data
\* bytes) and the priority item (5, 1 data byte), in that order, each once and
\* nothing else; and encoding the same notification again puts the same bytes
\* on the stream.
C10_FramedOrder ==
    (Encoded /\ pkg = "format.Notification" /\ err = Nil)
    => \A i \in 1..Len(marks) :
          LET r == Record(i)
              L == Len(TokenOf(pkg, n))
              P == Len(PayloadOf(pkg, n))
              a == 5 + 3 + L
              b == a + 3 + P
          IN /\ r[1] = 2
             /\ Len(r) = b + 7 + 7 + 4
             /\ r[6] = 1
             /\ SubSeq(r, 9, 8 + L) = TokenOf(pkg, n)
             /\ r[a + 1] = 2
             /\ SubSeq(r, a + 4, a + 3 + P) = PayloadOf(pkg, n)
             /\ SubSeq(r, b + 1, b + 3) = <<3, 0, 4>>
             /\ SubSeq(r, b + 4, b + 7) = Bytes32(n.Identifier)
             /\ SubSeq(r, b + 8, b + 10) = <<4, 0, 4>>
             /\ SubSeq(r, b + 11, b + 14) = Bytes32(n.Expiry)
             /\ SubSeq(r, b + 15, b + 18) = <<5, 0, 1, n.Priority>>
             /\ r = Record(1)

C10_Witness ==
    /\ Encoded
    /\ pkg = "format.Notification"
    /\ err = Nil
    /\ Len(marks) = 2
    /\ n.Token = HexString(ExampleToken)
    /\ n.Identifier = Int32(42)
    /\ n.Priority = 10
    /\ Len(wire) = 2 * marks[1]

\* C11: every ErrorResponse WriteTo puts on the stream is the 6-byte record tag
\* 8, status, identifier (4 bytes, big-endian), whichever way the value was
\* built, the mock server's status-and-identifier literal included.
C11_ErrorResponseRecord ==
    (/\ pc = "written"
     /\ pkg \in {"apns.ErrorResponse", "format.NotificationError"}
     /\ err = Nil)
    => \A i \in 1..Len(marks) :
          Record(i) = <<8, n.Status>> \o Bytes32(n.Identifier)

\* A call of ReadCommand is about to read the tag b of a record.
AtTag(b) == pc = "AwaitingTag" /\ rpos < Len(wire) /\ wire[rpos + 1] = b
\* The bytes of the stream behind the tag that is about to be read.
Behind == Len(wire) - rpos - 1

\* C12: decoding an ErrorResponse behind its tag consumes exactly 5 bytes, sets
\* the status to the first and the identifier to the big-endian value of the
\* next four (8,8,0,0,0,1 gives status 8 and identifier 1), and returns an
\* error when fewer than 5 bytes are there.
C12_ErrorResponseDecode ==
    [][(pkg = "apns" /\ AtTag(ErrorResponseCMD))
       => IF Behind >= 5
          THEN /\ err' = Nil
               /\ rpos' = rpos + 1 + 5
               /\ out'.v.Status = wire[rpos + 2]
               /\ out'.v.Identifier = <<wire[rpos + 3] * 256 + wire[rpos + 4],
                                        wire[rpos + 5] * 256 + wire[rpos + 6]>>
               /\ SubSeq(wire, rpos + 1, rpos + 6) = <<8, 8, 0, 0, 0, 1>>
                  => out'.v.Status = InvalidTokenStatus /\ out'.v.Identifier = Int32(1)
          ELSE err' # Nil /\ rpos' <= Len(wire)]_vars

C12_Witness ==
    /\ pkg = "apns"
    /\ Len(wire) > 6
    /\ SubSeq(wire, 1, 6) = <<8, 8, 0, 0, 0, 1>>
    /\ rpos = 6
    /\ err = Nil
    /\ out.type = "ErrorResponse"
    /\ out.v.Status = InvalidTokenStatus
    /\ out.v.Identifier = Int32(1)

\* C13: when the byte the dispatcher reads is 8 and the record is whole,
\* ReadCommand returns an ErrorResponse packet whose status is the byte behind
\* the tag and whose identifier is the big-endian value of the four bytes
\* behind that.
C13_DispatchErrorResponse ==
    [][(AtTag(8) /\ Behind >= 5)
       => /\ err' = Nil
          /\ out'.type \in {"ErrorResponse", "format.NotificationError"}
          /\ out'.v.Status = wire[rpos + 2]
          /\ out'.v.Identifier = <<wire[rpos + 3] * 256 + wire[rpos + 4],
                                   wire[rpos + 5] * 256 + wire[rpos + 6]>>]_vars

\* C14: when the byte the dispatcher reads is 0, 1 or 2, ReadCommand hands the
\* stream to the decoder of that variant and returns its notification; none of
\* the three tags is an unknown command.
C14_DispatchNotification ==
    [][(\E b \in {0, 1, 2} : AtTag(b))
       => /\ err' # UnknwonCommandErr
          /\ out' # NilPacket
          /\ AtTag(0) => out'.type \in {"SimpleNotification", "format.SimpleNotification"}
          /\ AtTag(1) => out'.type \in {"EnhancedNotification",
                                        "format.EnhancedNotification"}
          /\ AtTag(2) => out'.type = "format.Notification"]_vars

\* The tags the dispatcher is specified to know.
KnownTags == {0, 1, 2, 8}

\* C15: when the byte the dispatcher reads is none of 0, 1, 2 and 8 (99, say),
\* ReadCommand fails with the unknown-command error and has consumed that one
\* byte only: every byte behind it is still unread.
C15_UnknownCommand ==
    [][(pc = "AwaitingTag" /\ rpos < Len(wire) /\ wire[rpos + 1] \notin KnownTags)
       => /\ err' = UnknwonCommandErr
          /\ rpos' = rpos + 1
          /\ out' = NilPacket
          /\ packets' = packets]_vars

C15_Witness ==
    /\ pc = "Done"
    /\ err = UnknwonCommandErr
    /\ Len(wire) >= 3
    /\ wire[1] = 99
    /\ rpos = 1
    /\ out = NilPacket

\* C16: when the stream ends cleanly before any byte of a record is read,
\* ReadCommand reports end of stream and returns no packet, and it reports end
\* of stream in no other case: not for an unknown tag and not when a decoder
\* fails.
C16_EndOfStream ==
    [][(pc = "AwaitingTag")
       => /\ rpos = Len(wire) => (err' = "EOF" /\ out' = NilPacket)
          /\ rpos < Len(wire) => err' # "EOF"]_vars

\* Where the token and payload that start behind the first h bytes of w end,
\* going by their length fields; -1 when w ends before that.
PairEnd(w, h) ==
    IF h + 2 > Len(w) THEN -1
    ELSE LET q == h + 2 + (w[h + 1] * 256 + w[h + 2]) IN
         IF q + 2 > Len(w) THEN -1
         ELSE LET e == q + 2 + (w[q + 1] * 256 + w[q + 2]) IN
              IF e > Len(w) THEN -1 ELSE e

\* C17: decoding a Simple or Enhanced record succeeds only when the stream holds
\* all the bytes its token and payload lengths declare and the decoder has taken
\* them all, however the reader splits them into reads; when the stream ends
\* inside a field, or the token or payload is only partly read, decode fails.
C17_ShortReadFails ==
    [][((AtTag(0) \/ AtTag(1)) /\ err' = Nil)
       => LET h == rpos + 1 + (IF AtTag(1) THEN 8 ELSE 0) IN
          /\ PairEnd(wire, h) # -1
          /\ rpos' = PairEnd(wire, h)
          /\ out'.type = "SimpleNotification"
             => /\ out'.v.DeviceToken = SubSeq(wire, h + 3, h + 2 + out'.v.TokenLength)
                /\ out'.v.Payload
                      = SubSeq(wire, rpos' - out'.v.PayloadLength + 1, rpos')]_vars

\* The stream holds whole records and nothing else, each of a kind the
\* dispatcher hands to a decoder.
WholeRecords ==
    /\ Len(wire) = Len(Concat(n))
    /\ \A i \in 1..Len(n) : n[i].bytes[1] \in {0, 1, 8}
\* Two values of a type agree in every field but the tag.
SameFields(a, b) == [a EXCEPT !.Command = 0] = [b EXCEPT !.Command = 0]

\* C18: calling the dispatcher again and again on a stream that holds k whole
\* records back to back returns those k records in order, each call leaving
\* the stream at the first byte behind its record, and then end of stream,
\* however the reader splits the bytes into reads.
C18_RecordsInOrder ==
    (pc = "Done" /\ WholeRecords)
    => /\ err = "EOF"
       /\ rpos = Len(wire)
       /\ Len(packets) = Len(n)
       /\ \A i \in 1..Len(n) : SameFields(packets[i].v, n[i].v)

\* The error of the decoder that is handed the stream behind the tag b.
DecoderError(b) ==
    CASE pkg = "apns" /\ b = 0 -> SimpleReadFrom(SimpleZero, wire, rpos + 1, chunk).err
      [] pkg = "apns" /\ b = 1 -> EnhancedReadFrom(EnhancedZero, wire, rpos + 1, chunk).err
      [] pkg = "apns" /\ b = 8 -> ErrorResponseReadFrom(ErrorResponseZero, wire, rpos + 1).err
      [] pkg = "format" /\ b = 0 ->
            FormatSimpleReadFrom(FormatSimpleZero, wire, rpos + 1, chunk).err
      [] pkg = "format" /\ b = 1 ->
            FormatEnhancedReadFrom(FormatEnhancedZero, wire, rpos + 1, chunk).err
      [] pkg = "format" /\ b = 8 ->
            NotificationErrorReadFrom(ErrorResponseZero, wire, rpos + 1).err

\* C19: when the decoder the dispatcher handed the stream to fails, ReadCommand
\* returns the decoder's error value itself: not another error in its place,
\* and not the error it makes up when it recovers from a panic.
C19_DecoderErrorVerbatim ==
    [][\A b \in {0, 1, 8} :
          (AtTag(b) /\ DecoderError(b) # Nil)
          => /\ err' = DecoderError(b)
             /\ err' \notin {"Bad input.\n", UnknwonCommandErr}
             /\ pc' = "Done"]_vars

C19_Witness ==
    /\ pkg = "format"
    /\ pc = "Done"
    /\ out.type = "format.EnhancedNotification"
    /\ err = "unexpected EOF"
    /\ rpos = Len(wire)
    /\ packets = <<>>

\* The bytes an encode call puts on a writer that takes them all.
FullRecord ==
    CASE pkg = "apns.Simple" -> SimpleWriteTo(n).bytes
      [] pkg = "apns.Enhanced" -> EnhancedWrite(n).bytes
      [] pkg = "format.Simple" -> FormatSimpleWriteTo(n).bytes
      [] pkg = "format.Enhanced" -> FormatEnhancedWriteTo(n).bytes
      [] pkg = "format.Notification" -> FormatNotificationWriteTo(n).bytes
      [] OTHER -> ErrorResponseWriteTo(n).bytes

\* C20: when a write to the stream fails during an encode call, so that the call
\* leaves less than its record on the stream, the call (WriteTo, Write) returns
\* an error.
C20_WriteErrorsReturned ==
    (pc = "written" /\ Record(Len(marks)) # FullRecord) => err # Nil

\* A dial call that has finished: it returned, or it panicked.
Dialed == pkg = "dial" /\ pc \in {"returned", "panicked"}

\* C21: each (destination, environment) pair resolves to its one address:
\* Push/Production to gateway.push.apple.com:2195, Push/Sandbox to
\* gateway.sandbox.push.apple.com:2195, Feedback/Production to
\* feedback.push.apple.com:2196, Feedback/Sandbox to
\* feedback.sandbox.push.apple.com:2196.
C21_EnvironmentResolution ==
    (pkg = "dial" /\ pc # "called" /\ n.fn # "Dial") =>
        tcpconn.raddr =
            CASE n.fn \in {"DialAPNS", "Connect"} /\ n.env = DISTRIBUTION ->
                    "gateway.push.apple.com:2195"
              [] n.fn \in {"DialAPNS", "Connect"} /\ n.env = SANDBOX ->
                    "gateway.sandbox.push.apple.com:2195"
              [] n.fn \in {"DialFeedback", "ConnectFeedback"} /\ n.env = DISTRIBUTION ->
                    "feedback.push.apple.com:2196"
              [] n.fn \in {"DialFeedback", "ConnectFeedback"} /\ n.env = SANDBOX ->
                    "feedback.sandbox.push.apple.com:2196"

C21_Witness ==
    /\ Dialed /\ n.fn = "DialAPNS" /\ n.env = SANDBOX
    /\ tcpconn.state = "open"
    /\ tcpconn.raddr = "gateway.sandbox.push.apple.com:2195"

\* C22: a dial call given no certificate reports no error other than a
\* resolution or connect failure, and otherwise returns the raw TCP stream:
\* open, with no TLS session and no handshake.
C22_NilCertificateRawTCP ==
    (Dialed /\ n.cer = Nil) =>
        /\ pc = "returned"
        /\ err \in {Nil, "no such host", "connection refused"}
        /\ err = Nil =>
              /\ out = [type |-> "TCPConn"]
              /\ tcpconn.state = "open"
              /\ tcpconn.tls = "none"

\* C23: a dial call given a certificate returns a stream only once the TLS
\* handshake has succeeded; when resolution, connect or the handshake fails it
\* returns that error and no stream.
C23_StreamOnlyAfterHandshake ==
    (Dialed /\ n.cer # Nil) =>
        /\ pc = "returned"
        /\ (out = NilConn) <=> (err # Nil)
        /\ out # NilConn => tcpconn.state = "open" /\ tcpconn.tls = "established"
        /\ tcpconn.tls = "failed" => err = "handshake failure"
        /\ tcpconn.state = "none" => err \in {"no such host", "connection refused"}
        /\ err # Nil => tcpconn.state = "none" \/ tcpconn.tls = "failed"

C23_Witness ==
    /\ Dialed /\ n.fn = "DialAPNS" /\ n.cer # Nil
    /\ out = [type |-> "tls.Conn"] /\ err = Nil
    /\ tcpconn.tls = "established"

\* The entry points that take a delay flag.
TakesDelay == n.fn \in {"DialAPNS", "Connect", "Dial"}

\* C24: every stream a dial call returns, push or feedback, has Nagle's
\* algorithm on exactly when the delay flag asks for it, and on when the entry
\* point takes no flag; and the setting is made before the TLS handshake runs.
C24_WriteCoalescingPerFlag ==
    /\ (Dialed /\ pc = "returned" /\ err = Nil) =>
          tcpconn.nodelay = IF TakesDelay /\ ~n.delay THEN "true" ELSE "false"
    /\ (pkg = "dial" /\ tcpconn.tls \in {"established", "failed"}) =>
          tcpconn.nodelay # "default"

\* C28: a dial call that returns an error leaves no socket it opened open.
C28_FailedDialClosesSocket ==
    (Dialed /\ pc = "returned" /\ err # Nil) => tcpconn.state # "open"

\* C27: ReadCommand never returns both a packet and an error: whenever it
\* returns an error, the packet it returns with it is nil.
C27_PacketOrError ==
    (pkg \in {"apns", "format"} /\ pc = "Done" /\ err # Nil) => out = NilPacket

\* The errors of hex.DecodeString and json.Marshal.
EncodingErrors ==
    {"encoding/hex: invalid byte", "encoding/hex: odd length hex string",
     "json: unsupported type"}

\* C29: a WriteTo of package format that returns an error because the token is
\* not hex or the payload does not marshal has written no byte to the stream.
C29_FailedEncodeWritesNothing ==
    (/\ pkg \in {"format.Simple", "format.Enhanced", "format.Notification"}
     /\ Encoded /\ err \in EncodingErrors)
        => Record(Len(marks)) = <<>>

\* C26: -fail is a percentage: a notification gets a mock error exactly when
\* the draw from 1..100 is at most the option, so always with -fail=100 and
\* never with -fail=0.
C26_FailPercentage ==
    (pkg = "apnserver" /\ pc # "received") =>
        ((err # Nil) <=> (rnd <= mockErrOpts.fail))

\* The reading goroutine has got the peer's error response or the end of the
\* stream from ReadCommand.
ReaderObtained ==
    pkg \in {"apnsend", "apnsend.part_006"} /\ procs.readResp \in {"errc <- err", "IfErrExit"}

\* C25: once the reading goroutine has obtained an ErrorResponse or the end of
\* the stream, no step of any goroutine writes a further notification to the
\* connection.
C25_NoWriteAfterResponse ==
    [][ReaderObtained => written' = written]_vars

\* Notifications the options ask for: (R+1)*N.
Total == (n.repeat + 1) * Len(n.tokens)

\* C30: apnsend never deadlocks; when it exits through quit (main returns) it
\* has written all (R+1)*N notifications in the order produced, and when it
\* exits earlier it does so with the error of the producer or the reader after
\* writing a prefix of them in order.
C30_TerminatesAllWritten ==
    pkg \in {"apnsend", "apnsend.part_006"} =>
        /\ Running => ENABLED SendNext
        /\ written = [j \in 1..Len(written) |-> j]
        /\ Len(written) <= Total
        /\ procs.main = "returned" => Len(written) = Total
        /\ procs.main = "exit 1" => err # Nil
====
